---- MODULE Spec2Model ----
(***************************************************************************)
(* Conway's game of life on a flat boolean grid (src/src/main.ts): the     *)
(* global state record, the main loop (render, tick, reportPerformance,    *)
(* timer wait) and the user handlers (toggle, reset, random, mouse draw).  *)
(***************************************************************************)
EXTENDS Integers, Sequences, FiniteSets, TLC

\* ---------------------------------------------------------------- sizing
\* main.ts:15 has 100 cells per row; the model keeps the arithmetic and
\* scales the side down.
CELLS_PER_ROW == 4
BUFFER_SIZE == CELLS_PER_ROW * CELLS_PER_ROW

\* Bound of the exploration: how many times the user may write cells with
\* the random button or the mouse. Resets, toggles and ticks are not
\* limited.
MaxEdits == 1

\* Bound of the exploration: the timer is taken to fire only while fewer
\* than this many createImageBitmap promises are still unresolved.
MaxPending == 1

\* Bound of the exploration that starts from a random fill: the number of
\* live cells the fill leaves.
MaxLive == 5

Cells == 0 .. (BUFFER_SIZE - 1)
PixelBytes == 0 .. (4 * BUFFER_SIZE - 1)

\* RGB value per Number(cell): index 0 (dead) and index 1 (alive).
CELL_COLORS == <<255, 0>>

\* event.buttons values delivered with a mouse event: none, left, right.
Buttons == {0, 1, 2}

\* Outcomes of the random fill that the exploration draws from: every
\* buffer whose live cells lie in the centred 2x2 window.
RandomCells ==
  LET h == CELLS_PER_ROW \div 2
  IN  {y * CELLS_PER_ROW + x : x \in {h - 1, h}, y \in {h - 1, h}}

VARIABLES isRunning, isMousePressed, bitsChanged,
          previous, current, next, changed, pixels,
          pc, bitmaps, lastOp, edits, idleSnap, seen,
          quiet, everLive

vars == <<isRunning, isMousePressed, bitsChanged,
          previous, current, next, changed, pixels,
          pc, bitmaps, lastOp, edits, idleSnap, seen,
          quiet, everLive>>

\* ------------------------------------------------------- pure functions
createBuffer(size, defaultValue) == [i \in 0 .. (size - 1) |-> defaultValue]

cloneBuffer(buffer) == [i \in DOMAIN buffer |-> buffer[i]]

\* diff that marks only the cells alive in a and dead in b.
diffBuffersOneWay(a, b) == [index \in DOMAIN a |-> a[index] /\ ~b[index]]

diffBuffers(a, b) == [index \in DOMAIN a |-> a[index] # b[index]]

\* A JavaScript number as far as the neighbour count needs it: NaN or an
\* integer.
NaN == [nan |-> TRUE, val |-> 0]
Num(k) == [nan |-> FALSE, val |-> k]

\* The conversion with a missing cell counted as 0.
NumberOfCellZeroOutside(cells, k) ==
  Num(IF k \in DOMAIN cells /\ cells[k] THEN 1 ELSE 0)

\* Number(cells[k]): true -> 1, false -> 0, undefined (k outside the
\* array) -> NaN.
NumberOfCell(cells, k) ==
  IF k \in DOMAIN cells THEN Num(IF cells[k] THEN 1 ELSE 0) ELSE NaN

\* a + b on JavaScript numbers.
Plus(a, b) == IF a.nan \/ b.nan THEN NaN ELSE Num(a.val + b.val)

\* a < k, a > k, a === k against an integer literal: false on NaN.
LessThan(a, k) == ~a.nan /\ a.val < k
GreaterThan(a, k) == ~a.nan /\ a.val > k
StrictEquals(a, k) == ~a.nan /\ a.val = k

\* The offsets with the left and right neighbours taken inside the row
\* of index (wrapping around the row).
neighborIndicesTorus(index) ==
  LET x == index % CELLS_PER_ROW
      row == index - x
      t == index - CELLS_PER_ROW
      b == index + CELLS_PER_ROW
      l == row + ((x + CELLS_PER_ROW - 1) % CELLS_PER_ROW)
      r == row + ((x + 1) % CELLS_PER_ROW)
      tl == l - CELLS_PER_ROW
      tr == r - CELLS_PER_ROW
      bl == l + CELLS_PER_ROW
      br == r + CELLS_PER_ROW
  IN  <<t, b, l, r, tl, tr, bl, br>>

neighborIndices(index) ==
  LET t == index - CELLS_PER_ROW
      b == index + CELLS_PER_ROW
      l == index - 1
      r == index + 1
      tl == t - 1
      tr == t + 1
      bl == b - 1
      br == b + 1
  IN  <<t, b, l, r, tl, tr, bl, br>>

RECURSIVE countLoop(_, _, _)
countLoop(cells, neighbors, i) ==
  IF i = 0 THEN Num(0)
  ELSE Plus(countLoop(cells, neighbors, i - 1),
            NumberOfCell(cells, neighbors[i]))

\* The loop stopping one neighbour early.
findNeighborsSkipLast(cells, index) ==
  LET neighbors == neighborIndices(index)
  IN  countLoop(cells, neighbors, Len(neighbors) - 1)

findNeighbors(cells, index) ==
  LET neighbors == neighborIndices(index)
  IN  countLoop(cells, neighbors, Len(neighbors))

\* advance with the birth test comparing against 2.
advanceBirthOnTwo(cur, nxt) ==
  [i \in DOMAIN cur |->
     LET neighbors == findNeighbors(cur, i)
         alive == cur[i]
     IN  IF alive /\ (LessThan(neighbors, 2) \/ GreaterThan(neighbors, 3))
           THEN FALSE
         ELSE IF ~alive /\ StrictEquals(neighbors, 2)
           THEN TRUE
         ELSE nxt[i]]

\* advance with the underpopulation test left out.
advanceNoUnderpopulation(cur, nxt) ==
  [i \in DOMAIN cur |->
     LET neighbors == findNeighbors(cur, i)
         alive == cur[i]
     IN  IF alive /\ GreaterThan(neighbors, 3)
           THEN FALSE
         ELSE IF ~alive /\ StrictEquals(neighbors, 3)
           THEN TRUE
         ELSE nxt[i]]

\* The for loop of tick: the value next holds after the loop.
advance(cur, nxt) ==
  [i \in DOMAIN cur |->
     LET neighbors == findNeighbors(cur, i)
         alive == cur[i]
     IN  IF alive /\ (LessThan(neighbors, 2) \/ GreaterThan(neighbors, 3))
           THEN FALSE
         ELSE IF ~alive /\ StrictEquals(neighbors, 3)
           THEN TRUE
         ELSE nxt[i]]

\* The encoding with the two colours exchanged.
encodeSwappedColors(cur, chg, px) ==
  [p \in DOMAIN px |->
     LET i == p \div 4
         x == i % CELLS_PER_ROW
         y == i \div CELLS_PER_ROW
         index == (y * CELLS_PER_ROW + x) * 4
         color == CELL_COLORS[(IF cur[i] THEN 0 ELSE 1) + 1]
     IN  IF ~chg[i] THEN px[p]
         ELSE IF p = index + 3 THEN 255
         ELSE IF p \in index .. (index + 2) THEN color
         ELSE px[p]]

\* The for loop of render: the pixel bytes after the loop.
encode(cur, chg, px) ==
  [p \in DOMAIN px |->
     LET i == p \div 4
         x == i % CELLS_PER_ROW
         y == i \div CELLS_PER_ROW
         index == (y * CELLS_PER_ROW + x) * 4
         color == CELL_COLORS[(IF cur[i] THEN 1 ELSE 0) + 1]
     IN  IF ~chg[i] THEN px[p]
         ELSE IF p = index + 3 THEN 255
         ELSE IF p \in index .. (index + 2) THEN color
         ELSE px[p]]

countChanged(chg) == Cardinality({i \in DOMAIN chg : chg[i]})

\* ------------------------------------------------------------- initial
\* quiet: the last tick ran while idle and no reset, random fill or paint
\* happened since. everLive: the cells that were alive at some render.
\* idleSnap remembers current and next as they were when the run flag was
\* last toggled to Idle, and whether one or more ticks ran since; it is
\* dropped by the next reset, random fill, paint or toggle.
NoSnap == [valid |-> FALSE,
           ticks |-> 0,
           current |-> createBuffer(BUFFER_SIZE, FALSE),
           next |-> createBuffer(BUFFER_SIZE, FALSE)]

Init ==
  /\ isRunning = FALSE
  /\ isMousePressed = FALSE
  /\ bitsChanged = 0
  /\ previous = createBuffer(BUFFER_SIZE, FALSE)
  /\ current = createBuffer(BUFFER_SIZE, FALSE)
  /\ next = createBuffer(BUFFER_SIZE, FALSE)
  /\ pixels = [p \in PixelBytes |-> 0]
  /\ changed = createBuffer(BUFFER_SIZE, FALSE)
  /\ pc = "render"
  /\ bitmaps = 0
  /\ lastOp = "none"
  /\ edits = 0
  /\ idleSnap = NoSnap
  /\ seen = {}
  /\ quiet = FALSE
  /\ everLive = {}

\* ----------------------------------------------------------- main loop
\* render without the early return when nothing changed.
RenderAlwaysPresents ==
  /\ pc = "render"
  /\ changed' = diffBuffers(current, previous)
  /\ bitsChanged' = countChanged(changed')
  /\ pixels' = encode(current, changed', pixels)
  /\ bitmaps' = bitmaps + 1
  /\ everLive' = everLive \cup {i \in Cells : current[i]}
  /\ pc' = "tick"
  /\ lastOp' = "none"
  /\ UNCHANGED <<isRunning, isMousePressed, previous, current, next,
                 edits, idleSnap, seen, quiet>>

\* render(context) up to its first await (or its early return).
Render ==
  /\ pc = "render"
  /\ changed' = diffBuffers(current, previous)
  /\ bitsChanged' = countChanged(changed')
  /\ pixels' = encode(current, changed', pixels)
  /\ bitmaps' = IF bitsChanged' = 0 THEN bitmaps ELSE bitmaps + 1
  /\ everLive' = everLive \cup {i \in Cells : current[i]}
  /\ pc' = "tick"
  /\ lastOp' = "none"
  /\ UNCHANGED <<isRunning, isMousePressed, previous, current, next,
                 edits, idleSnap, seen, quiet>>

\* tick with the snapshot taken after the early return.
TickStepSnapshotWhenRunning(record) ==
  /\ pc = "tick"
  /\ IF ~isRunning
       THEN UNCHANGED <<previous, current, next, seen>>
       ELSE /\ previous' = cloneBuffer(current)
            /\ next' = advance(current, next)
            /\ current' = cloneBuffer(next')
            /\ seen' = IF record THEN seen \cup {<<current, current'>>} ELSE seen
  /\ pc' = "report"
  /\ idleSnap' = IF idleSnap.valid
                   THEN [idleSnap EXCEPT !.ticks = IF @ < 2 THEN @ + 1 ELSE @]
                   ELSE idleSnap
  /\ quiet' = ~isRunning
  /\ UNCHANGED <<isRunning, isMousePressed, bitsChanged, changed, pixels,
                 bitmaps, lastOp, edits, everLive>>

\* tick with the snapshot taken after the commit.
TickStepSnapshotAfterCommit(record) ==
  /\ pc = "tick"
  /\ IF ~isRunning
       THEN UNCHANGED <<current, next, seen>>
       ELSE /\ next' = advance(current, next)
            /\ current' = cloneBuffer(next')
            /\ seen' = IF record THEN seen \cup {<<current, current'>>} ELSE seen
  /\ previous' = cloneBuffer(current')
  /\ pc' = "report"
  /\ idleSnap' = IF idleSnap.valid
                   THEN [idleSnap EXCEPT !.ticks = IF @ < 2 THEN @ + 1 ELSE @]
                   ELSE idleSnap
  /\ quiet' = ~isRunning
  /\ UNCHANGED <<isRunning, isMousePressed, bitsChanged, changed, pixels,
                 bitmaps, lastOp, edits, everLive>>

\* tick without the commit.
TickStepNoCommit(record) ==
  /\ pc = "tick"
  /\ previous' = cloneBuffer(current)
  /\ IF ~isRunning
       THEN UNCHANGED <<current, next, seen>>
       ELSE /\ next' = advance(current, next)
            /\ current' = current
            /\ seen' = IF record THEN seen \cup {<<current, current'>>} ELSE seen
  /\ pc' = "report"
  /\ idleSnap' = IF idleSnap.valid
                   THEN [idleSnap EXCEPT !.ticks = IF @ < 2 THEN @ + 1 ELSE @]
                   ELSE idleSnap
  /\ quiet' = ~isRunning
  /\ UNCHANGED <<isRunning, isMousePressed, bitsChanged, changed, pixels,
                 bitmaps, lastOp, edits, everLive>>

\* tick without the early return while idle.
TickStepNoReturn(record) ==
  /\ pc = "tick"
  /\ previous' = cloneBuffer(current)
  /\ next' = advance(current, next)
  /\ current' = cloneBuffer(next')
  /\ seen' = IF record THEN seen \cup {<<current, current'>>} ELSE seen
  /\ pc' = "report"
  /\ idleSnap' = IF idleSnap.valid
                   THEN [idleSnap EXCEPT !.ticks = IF @ < 2 THEN @ + 1 ELSE @]
                   ELSE idleSnap
  /\ quiet' = ~isRunning
  /\ UNCHANGED <<isRunning, isMousePressed, bitsChanged, changed, pixels,
                 bitmaps, lastOp, edits, everLive>>

TickStep(record) ==
  /\ pc = "tick"
  /\ previous' = cloneBuffer(current)
  /\ IF ~isRunning
       THEN UNCHANGED <<current, next, seen>>
       ELSE /\ next' = advance(current, next)
            /\ current' = cloneBuffer(next')
            /\ seen' = IF record THEN seen \cup {<<current, current'>>} ELSE seen
  /\ pc' = "report"
  /\ idleSnap' = IF idleSnap.valid
                   THEN [idleSnap EXCEPT !.ticks = IF @ < 2 THEN @ + 1 ELSE @]
                   ELSE idleSnap
  /\ quiet' = ~isRunning
  /\ UNCHANGED <<isRunning, isMousePressed, bitsChanged, changed, pixels,
                 bitmaps, lastOp, edits, everLive>>

Tick == TickStep(FALSE)

\* reportPerformance(), lastLoop, and the await of the timer promise.
Report ==
  /\ pc = "report"
  /\ pc' = "wait"
  /\ UNCHANGED lastOp
  /\ UNCHANGED <<isRunning, isMousePressed, bitsChanged, previous, current,
                 next, changed, pixels, bitmaps, edits, idleSnap, seen, quiet, everLive>>

\* The timer fires and the loop starts its next iteration.
TimerFire ==
  /\ pc = "wait"
  /\ bitmaps < MaxPending
  /\ pc' = "render"
  /\ UNCHANGED lastOp
  /\ UNCHANGED <<isRunning, isMousePressed, bitsChanged, previous, current,
                 next, changed, pixels, bitmaps, edits, idleSnap, seen, quiet, everLive>>

\* The suspension points of a main loop that awaits render: the timer
\* wait and the wait between render and tick.
SuspendedAfterRender == pc \in {"wait", "tick"}

\* The main loop is suspended in an await: the only points at which the
\* event loop can run a handler or a continuation.
Suspended == pc = "wait"

\* The rest of render after createImageBitmap resolves: drawImage, close.
Present ==
  /\ Suspended
  /\ bitmaps > 0
  /\ bitmaps' = bitmaps - 1
  /\ UNCHANGED lastOp
  /\ UNCHANGED <<isRunning, isMousePressed, bitsChanged, previous, current,
                 next, changed, pixels, pc, edits, idleSnap, seen, quiet, everLive>>

\* -------------------------------------------------------- user handlers
ToggleClick ==
  /\ Suspended
  /\ isRunning' = ~isRunning
  /\ lastOp' = "none"
  /\ idleSnap' = IF isRunning
                   THEN [valid |-> TRUE, ticks |-> 0,
                         current |-> current, next |-> next]
                   ELSE NoSnap
  /\ UNCHANGED <<isMousePressed, bitsChanged, previous, current, next,
                 changed, pixels, pc, bitmaps, edits, seen, quiet, everLive>>

\* reset that reallocates current only.
ResetClickKeepsNext ==
  /\ Suspended
  /\ current' = createBuffer(BUFFER_SIZE, FALSE)
  /\ lastOp' = "reset"
  /\ idleSnap' = NoSnap
  /\ UNCHANGED <<isRunning, isMousePressed, bitsChanged, previous, next,
                 changed, pixels, pc, bitmaps, edits, seen, everLive>>
  /\ quiet' = FALSE

ResetClick ==
  /\ Suspended
  /\ current' = createBuffer(BUFFER_SIZE, FALSE)
  /\ next' = createBuffer(BUFFER_SIZE, FALSE)
  /\ lastOp' = "reset"
  /\ idleSnap' = NoSnap
  /\ UNCHANGED <<isRunning, isMousePressed, bitsChanged, previous, changed,
                 pixels, pc, bitmaps, edits, seen, everLive>>
  /\ quiet' = FALSE

\* random fill that copies the new current into next as well.
RandomClickSyncsNext ==
  /\ Suspended
  /\ edits < MaxEdits
  /\ \E live \in SUBSET RandomCells :
       current' = [i \in DOMAIN current |-> i \in live]
  /\ next' = cloneBuffer(current')
  /\ lastOp' = "random"
  /\ edits' = edits + 1
  /\ idleSnap' = NoSnap
  /\ UNCHANGED <<isRunning, isMousePressed, bitsChanged, previous,
                 changed, pixels, pc, bitmaps, seen, everLive>>
  /\ quiet' = FALSE

RandomClick ==
  /\ Suspended
  /\ edits < MaxEdits
  /\ \E live \in SUBSET RandomCells :
       current' = [i \in DOMAIN current |-> i \in live]
  /\ lastOp' = "random"
  /\ edits' = edits + 1
  /\ idleSnap' = NoSnap
  /\ UNCHANGED <<isRunning, isMousePressed, bitsChanged, previous, next,
                 changed, pixels, pc, bitmaps, seen, everLive>>
  /\ quiet' = FALSE

\* draw(event): the value of current after the handler.
draw(pressed, buttons, x, y) ==
  LET isLeftMouseButton == buttons = 1
      isRightMouseButton == buttons = 2
      index == y * CELLS_PER_ROW + x
  IN  IF ~pressed THEN current
      ELSE IF isLeftMouseButton THEN [current EXCEPT ![index] = TRUE]
      ELSE IF isRightMouseButton THEN [current EXCEPT ![index] = FALSE]
      ELSE current

Writes(pressed, buttons) == pressed /\ buttons \in {1, 2}

\* canvas.onmousedown: the flag is set, then draw(event) runs.
MouseDown ==
  /\ Suspended
  /\ \E buttons \in Buttons, x \in 0 .. (CELLS_PER_ROW - 1),
        y \in 0 .. (CELLS_PER_ROW - 1) :
       /\ Writes(TRUE, buttons) => edits < MaxEdits
       /\ current' = draw(TRUE, buttons, x, y)
       /\ edits' = IF Writes(TRUE, buttons) THEN edits + 1 ELSE edits
       /\ idleSnap' = IF Writes(TRUE, buttons) THEN NoSnap ELSE idleSnap
       /\ lastOp' = IF Writes(TRUE, buttons) THEN "paint" ELSE "none"
       /\ quiet' = IF Writes(TRUE, buttons) THEN FALSE ELSE quiet
  /\ isMousePressed' = TRUE
  /\ UNCHANGED <<isRunning, bitsChanged, previous, next, changed, pixels,
                 pc, bitmaps, seen, everLive>>

\* canvas.onmouseup: the flag is cleared, so draw(event) returns at once.
MouseUp ==
  /\ Suspended
  /\ isMousePressed' = FALSE
  /\ current' = draw(FALSE, 0, 0, 0)
  /\ lastOp' = "none"
  /\ UNCHANGED <<isRunning, bitsChanged, previous, next, changed, pixels,
                 pc, bitmaps, edits, idleSnap, seen, quiet, everLive>>

\* canvas.onmousemove and canvas.onclick are both draw; with the flag
\* clear the handler returns without a write.
MouseMove ==
  /\ Suspended
  /\ isMousePressed
  /\ \E buttons \in Buttons, x \in 0 .. (CELLS_PER_ROW - 1),
        y \in 0 .. (CELLS_PER_ROW - 1) :
       /\ Writes(isMousePressed, buttons) => edits < MaxEdits
       /\ current' = draw(isMousePressed, buttons, x, y)
       /\ edits' = IF Writes(isMousePressed, buttons) THEN edits + 1 ELSE edits
       /\ idleSnap' = IF Writes(isMousePressed, buttons) THEN NoSnap ELSE idleSnap
       /\ lastOp' = IF Writes(isMousePressed, buttons) THEN "paint" ELSE "none"
       /\ quiet' = IF Writes(isMousePressed, buttons) THEN FALSE ELSE quiet
  /\ UNCHANGED <<isRunning, isMousePressed, bitsChanged, previous, next,
                 changed, pixels, pc, bitmaps, seen, everLive>>

Next ==
  \/ Render
  \/ Tick
  \/ Report
  \/ TimerFire
  \/ Present
  \/ ToggleClick
  \/ ResetClick
  \/ RandomClick
  \/ MouseDown
  \/ MouseUp
  \/ MouseMove

Spec == Init /\ [][Next]_vars

\* ------------------------------------------------- after a random fill
\* The state the program is in after the first loop iteration (nothing to
\* draw, tick while idle) followed by one click on the random button that
\* left the cells of live alive.
AfterRandom(live) ==
  /\ isRunning = FALSE
  /\ isMousePressed = FALSE
  /\ bitsChanged = 0
  /\ previous = createBuffer(BUFFER_SIZE, FALSE)
  /\ current = [i \in Cells |-> i \in live]
  /\ next = createBuffer(BUFFER_SIZE, FALSE)
  /\ pixels = [p \in PixelBytes |-> 0]
  /\ changed = createBuffer(BUFFER_SIZE, FALSE)
  /\ pc = "wait"
  /\ bitmaps = 0
  /\ lastOp = "random"
  /\ edits = 0
  /\ idleSnap = NoSnap
  /\ seen = {}
  /\ quiet = FALSE
  /\ everLive = {}

\* Every outcome of the random fill with at most MaxLive live cells, all
\* of them below the first row; afterwards the loop runs and the user
\* toggles and resets.
FillCells == CELLS_PER_ROW .. (BUFFER_SIZE - 1)

InitFill ==
  \E live \in SUBSET FillCells :
    Cardinality(live) <= MaxLive /\ AfterRandom(live)

NextFill ==
  \/ Render
  \/ Tick
  \/ Report
  \/ TimerFire
  \/ Present
  \/ ToggleClick
  \/ ResetClick

SpecFill == InitFill /\ [][NextFill]_vars

\* Every outcome of the random fill inside the centred window; afterwards
\* the user also erases live cells with the right button, and every
\* Running tick is recorded in seen as the pair (current at its start,
\* current after its commit).
InitDet == \E live \in SUBSET RandomCells : AfterRandom(live)

TickRecorded == TickStep(TRUE)

Erase == MouseDown /\ \E i \in Cells : current[i] /\ ~current'[i]

NextDet ==
  \/ Render
  \/ TickRecorded
  \/ Report
  \/ TimerFire
  \/ Present
  \/ ToggleClick
  \/ ResetClick
  \/ Erase

SpecDet == InitDet /\ [][NextDet]_vars

\* ================================================================ claims
\* A step of tick taken while the run flag is set.
RunningTick == pc = "tick" /\ pc' = "report" /\ isRunning

\* The state right after a Running tick; previous then holds the value
\* current had when the tick started (main.ts:88).
AfterRunningTick == pc = "report" /\ isRunning

AllDead(cells) == \A i \in DOMAIN cells : ~cells[i]

\* The offsets of i that lie inside the buffer.
InsideOffsets(i) ==
  {neighborIndices(i)[k] : k \in 1 .. 8} \cap Cells

\* C1: in every Running tick, a live cell whose neighbour count is 2 or 3
\* is alive after the tick.
C1_Survival ==
  [][RunningTick =>
       \A i \in Cells :
         LET n == findNeighbors(current, i)
         IN  (current[i] /\ (StrictEquals(n, 2) \/ StrictEquals(n, 3)))
               => current'[i]]_vars

\* C2: in every Running tick, a live cell with fewer than 2 or more than 3
\* neighbours is dead after the tick, and a dead cell with exactly 3
\* neighbours is alive after the tick.
C2_DeathAndBirth ==
  [][RunningTick =>
       \A i \in Cells :
         LET n == findNeighbors(current, i)
         IN  /\ (current[i] /\ (LessThan(n, 2) \/ GreaterThan(n, 3)))
                  => ~current'[i]
             /\ (~current[i] /\ StrictEquals(n, 3)) => current'[i]]_vars

\* A Running tick has just killed one cell by underpopulation, another by
\* overpopulation, and has given birth to a third.
C2_Witness ==
  /\ AfterRunningTick
  /\ \E i \in Cells :
       previous[i] /\ LessThan(findNeighbors(previous, i), 2) /\ ~current[i]
  /\ \E i \in Cells :
       previous[i] /\ GreaterThan(findNeighbors(previous, i), 3) /\ ~current[i]
  /\ \E i \in Cells :
       ~previous[i] /\ StrictEquals(findNeighbors(previous, i), 3) /\ current[i]

\* current is exactly one 2x2 block of live cells that touches no edge of
\* the grid.
IsInnerBlock(cells) ==
  \E x \in 1 .. (CELLS_PER_ROW - 3), y \in 1 .. (CELLS_PER_ROW - 3) :
    LET c == y * CELLS_PER_ROW + x
    IN  \A i \in Cells :
          cells[i] <=> i \in {c, c + 1, c + CELLS_PER_ROW, c + CELLS_PER_ROW + 1}

\* C3: a Running tick that starts with current being exactly a 2x2 block
\* away from the edges leaves current the same block.
C3_BlockStill ==
  [][(RunningTick /\ IsInnerBlock(current)) => current' = current]_vars

\* C4: a Running tick that starts with every cell of current dead leaves
\* every cell of next and of current dead.
C4_NoSpontaneousLife ==
  [][(RunningTick /\ AllDead(current))
       => (AllDead(next') /\ AllDead(current'))]_vars

\* C5: in every Running tick, a live cell none of whose offsets inside the
\* buffer is alive is dead after the tick, at every index, the first and
\* last rows included.
C5_IsolatedDies ==
  [][RunningTick =>
       \A i \in Cells :
         (current[i] /\ \A k \in InsideOffsets(i) : ~current[k])
           => ~current'[i]]_vars

\* A Running tick has just killed an isolated live cell of the first or
\* last row, some of whose offsets fall outside the buffer.
C5_Witness ==
  /\ AfterRunningTick
  /\ \E i \in Cells :
       /\ i < CELLS_PER_ROW \/ i >= BUFFER_SIZE - CELLS_PER_ROW
       /\ Cardinality(InsideOffsets(i)) < 8
       /\ previous[i]
       /\ \A k \in InsideOffsets(i) : ~previous[k]
       /\ ~current[i]

\* C6: findNeighbors returns an integer in 0..8 for every index of every
\* buffer the program holds, and 0 at every index of an all-dead buffer.
CountOK(cells) ==
  \A index \in Cells :
    LET n == findNeighbors(cells, index)
    IN  /\ ~n.nan
        /\ n.val \in 0 .. 8
        /\ AllDead(cells) => n.val = 0

C6_CountInRange ==
  CountOK(current) /\ CountOK(next) /\ CountOK(previous)

\* C7: from the toggle to Idle on, while no reset, random fill or paint
\* happens, current and next stay what they were at the toggle, through
\* any number of ticks.
C7_IdleFreeze ==
  idleSnap.valid =>
    /\ ~isRunning
    /\ current = idleSnap.current
    /\ next = idleSnap.next

\* Two or more ticks have run since a toggle to Idle that found live cells.
C7_Witness ==
  /\ idleSnap.valid
  /\ idleSnap.ticks = 2
  /\ ~AllDead(current)
  /\ ~AllDead(next)

\* C8: a reset leaves every cell of current and of next false, both of
\* length side*side, and leaves the run flag, previous and changed alone.
\* (A step that sets lastOp to "reset" without moving the loop or resolving
\* a bitmap is a click on reset.)
C8_Reset ==
  [][(lastOp' = "reset" /\ pc' = pc /\ bitmaps' = bitmaps) =>
       /\ DOMAIN current' = Cells /\ AllDead(current')
       /\ DOMAIN next' = Cells /\ AllDead(next')
       /\ isRunning' = isRunning
       /\ previous' = previous
       /\ changed' = changed]_vars

\* A reset has just run while Running, after a random fill and ticks that
\* left live cells in previous and in the change mask.
C8_Witness ==
  /\ lastOp = "reset"
  /\ isRunning
  /\ AllDead(current) /\ AllDead(next)
  /\ ~AllDead(previous)
  /\ ~AllDead(changed)

\* C9: any two Running ticks that start from the same current end with the
\* same current.
C9_Deterministic ==
  \A p \in seen, q \in seen : p[1] = q[1] => p[2] = q[2]

\* C10: outside the timer wait nothing a handler writes changes, except by
\* the loop's own step: render leaves the buffers it reads alone and is
\* followed by tick, and tick is followed by the report and the wait; no
\* bitmap continuation runs either.
C10_TickAtomic ==
  [][pc # "wait" =>
       /\ isRunning' = isRunning
       /\ isMousePressed' = isMousePressed
       /\ edits' = edits
       /\ bitmaps' >= bitmaps
       /\ pc = "render" => (pc' = "tick" /\ current' = current
                             /\ next' = next /\ previous' = previous)
       /\ pc = "tick" => (pc' = "report" /\ previous' = current)
       /\ pc = "report" => (pc' = "wait" /\ current' = current
                             /\ next' = next /\ previous' = previous)]_vars

\* A reset has taken effect during the timer wait, while the bitmap of
\* the render that was called without await is still unresolved.
C10_Witness ==
  /\ pc = "wait"
  /\ bitmaps > 0
  /\ lastOp = "reset"
  /\ current # previous

\* A step of tick, idle or Running, and a step of render.
TickTaken == pc = "tick" /\ pc' = "report"
RenderTaken == pc = "render" /\ pc' = "tick"

\* The four pixel bytes of cell i.
PixelGroup(px, i) == <<px[4 * i], px[4 * i + 1], px[4 * i + 2], px[4 * i + 3]>>

\* White for a dead cell, black for a live one, both opaque.
ColorOf(alive) == IF alive THEN <<0, 0, 0, 255>> ELSE <<255, 255, 255, 255>>

\* C11: after every tick, idle or Running, previous is cell for cell what
\* current was when the tick started; and the mask of the next render is
\* exactly the set of cells where current differs from that snapshot.
C11_Snapshot ==
  [][/\ TickTaken => (DOMAIN previous' = Cells
                      /\ \A i \in Cells : previous'[i] = current[i])
     /\ RenderTaken => \A i \in Cells :
                         changed'[i] <=> (current[i] # previous[i])]_vars

\* An idle tick has just taken the snapshot of a buffer that a paint had
\* made different from the previous snapshot.
C11_Witness ==
  /\ pc = "report"
  /\ ~isRunning
  /\ previous = current
  /\ ~AllDead(previous)
  /\ ~AllDead(changed)

C13_Diff ==
  \A a \in {current, next}, b \in {previous, current} :
    LET mask == diffBuffers(a, b)
    IN  /\ DOMAIN mask = Cells
        /\ \A i \in Cells : mask[i] = (a[i] # b[i])
        /\ a = b => AllDead(mask)
        /\ mask = diffBuffers(b, a)

\* current has a cell that previous lacks and previous one that current
\* lacks: both directions of the comparison occur.
C13_Witness ==
  /\ \E i \in Cells : current[i] /\ ~previous[i]
  /\ \E i \in Cells : ~current[i] /\ previous[i]
  /\ \E i \in Cells : current[i] = previous[i]

\* A step of the random or mouse handler that wrote (the loop does not
\* move and no bitmap resolves in it).
RandomTaken == lastOp' = "random" /\ pc' = pc /\ bitmaps' = bitmaps
PaintTaken == lastOp' = "paint" /\ pc' = pc /\ bitmaps' = bitmaps

\* C14: a random fill and a paint leave next, previous, changed and the
\* run flag alone; a paint changes current at one index at most, and only
\* with the mouse flag set; the mouse handlers change current in no other
\* step; and a paint that changes a cell is draw with the flag set and the
\* left or right button over that cell, while draw over the same cell with
\* no button, or with the flag clear, returns current unchanged.
C14_ExternalFrame ==
  [][/\ (RandomTaken \/ PaintTaken) =>
          /\ next' = next
          /\ previous' = previous
          /\ changed' = changed
          /\ isRunning' = isRunning
     /\ PaintTaken =>
          /\ isMousePressed'
          /\ Cardinality({i \in Cells : current'[i] # current[i]}) <= 1
     /\ (pc = "wait" /\ pc' = "wait" /\ current' # current) =>
          lastOp' \in {"reset", "random", "paint"}
     /\ (PaintTaken /\ current' # current) =>
          \A i \in Cells :
            current'[i] # current[i] =>
              LET x == i % CELLS_PER_ROW
                  y == i \div CELLS_PER_ROW
              IN  /\ \E buttons \in {1, 2} :
                       current' = draw(TRUE, buttons, x, y)
                  /\ draw(TRUE, 0, x, y) = current
                  /\ \A buttons \in Buttons :
                       draw(FALSE, buttons, x, y) = current]_vars

\* A paint has just set one cell of current that next does not have.
C14_Witness ==
  /\ lastOp = "paint"
  /\ isMousePressed
  /\ Cardinality({i \in Cells : current[i] # next[i]}) = 1
  /\ previous = next

\* The cells of the last and first column all of whose offsets are inside
\* the buffer.
Inner == {i \in Cells : Cardinality(InsideOffsets(i)) = 8}
RightInner == {i \in Inner : i % CELLS_PER_ROW = CELLS_PER_ROW - 1}
LeftInner == {i \in Inner : i % CELLS_PER_ROW = 0}

\* The count at index rises by one when cell k is alive.
Counts(cells, index, k) ==
  findNeighbors(cells, index) =
    Plus(findNeighbors([cells EXCEPT ![k] = FALSE], index),
         Num(IF cells[k] THEN 1 ELSE 0))

\* The offsets of a last-column cell that lie in the first column.
WrapOffsets(i) == {i + 1, i + 1 - CELLS_PER_ROW, i + 1 + CELLS_PER_ROW}

C16_IdleShortCircuit ==
  [][RenderTaken =>
       /\ quiet => /\ AllDead(changed')
                   /\ bitsChanged' = 0
                   /\ pixels' = pixels
                   /\ bitmaps' = bitmaps
       /\ bitmaps' = (IF current # previous THEN bitmaps + 1 ELSE bitmaps)]_vars

\* A render has just skipped the presentation of a grid with live cells
\* that stood still through an idle tick.
C16_Witness ==
  /\ pc = "tick"
  /\ quiet
  /\ bitsChanged = 0
  /\ ~AllDead(current)
  /\ bitmaps = 0

\* A step of the reset handler.
ResetTaken == lastOp' = "reset" /\ pc' = pc /\ bitmaps' = bitmaps

\* A step of the random or mouse handler that wrote.
WriteTaken == RandomTaken \/ PaintTaken

\* C17 as stated: after every Running tick and every reset current equals
\* next; the two become different only in a random fill or a paint; and a
\* cell where they differ stays different in every step that is not a
\* Running tick or a reset.
C17_StayDifferent ==
  [][/\ RunningTick => current' = next'
     /\ ResetTaken => current' = next'
     /\ (current = next /\ current' # next') => WriteTaken
     /\ \A i \in Cells :
          (current[i] # next[i] /\ ~RunningTick /\ ~ResetTaken)
            => current'[i] # next'[i]]_vars

\* C17: after every Running tick and every reset current equals next; the
\* two become different only in a random fill or a paint; and a cell where
\* they differ stays different until a Running tick, a reset, or a random
\* fill or paint that changes current at that cell.
C17_Synchronised ==
  [][/\ RunningTick => current' = next'
     /\ ResetTaken => current' = next'
     /\ (current = next /\ current' # next') => WriteTaken
     /\ \A i \in Cells :
          (current[i] # next[i] /\ current'[i] = next'[i])
            => \/ RunningTick
               \/ ResetTaken
               \/ WriteTaken /\ current'[i] # current[i]]_vars

\* A right-button paint has just erased the only cell at which current
\* and next differed, with no Running tick or reset since the fill.
C17_Witness ==
  /\ lastOp = "paint"
  /\ current = next
  /\ AllDead(previous)
  /\ edits = 1

\* The number of live cells among the eight offsets of i.
LiveOffsets(cells, i) ==
  Cardinality({k \in 1 .. 8 : cells[neighborIndices(i)[k]]})

\* Conway's rule at i from cells.
Conway(cells, i) ==
  \/ cells[i] /\ LiveOffsets(cells, i) \in {2, 3}
  \/ ~cells[i] /\ LiveOffsets(cells, i) = 3

\* C18: a Running tick that starts with current equal to next computes
\* Conway's rule at every index whose eight offsets are inside the buffer;
\* every Running tick ends with current equal to next, and the equality
\* lasts through every step that is not a random fill or a paint, so it
\* holds at the start of the second and every later tick of a run.
C18_ConwayWhenSynchronised ==
  [][/\ (RunningTick /\ current = next) =>
          \A i \in Inner : current'[i] <=> Conway(current, i)
     /\ RunningTick => current' = next'
     /\ (current = next /\ ~WriteTaken) => current' = next']_vars

\* A Running tick has just kept a live cell, given birth to one and killed
\* one, all by Conway's rule and at indices with all offsets inside.  (A
\* tick that starts with next stale keeps no cell alive after a fill, so
\* this tick started with current equal to next.)
C18_Witness ==
  /\ AfterRunningTick
  /\ \E i \in Inner :
       previous[i] /\ LiveOffsets(previous, i) \in {2, 3} /\ current[i]
  /\ \E i \in Inner :
       ~previous[i] /\ LiveOffsets(previous, i) = 3 /\ current[i]
  /\ \E i \in Inner :
       previous[i] /\ LiveOffsets(previous, i) \notin {2, 3} /\ ~current[i]

\* The indices with at least one offset outside the buffer.
Border == Cells \ Inner

Unwritten == <<0, 0, 0, 0>>

====
